---- MODULE Spec2Model ----
(***************************************************************************)
(* RLScore: conjugate gradient RankRLS (rlscore/learner/cg_rankrls.py)     *)
(* with its early-stopping callback.                                       *)
(*                                                                         *)
(* A learner is constructed from a resource pool (loadResources), and is   *)
(* then trained any number of times (train / solve).  One training run is  *)
(* a scipy cg() loop: every solver iteration updates the solver's iterate  *)
(* IN PLACE and hands that same array to the registered callback.          *)
(*                                                                         *)
(* Abstractions                                                            *)
(*  - an iterate is the pair <<regparam, iteration number>>: cg is         *)
(*    deterministic, so the pair identifies the vector; <<0,0>> is x0.     *)
(*  - numpy arrays are references.  np.mat(v) and .T are views, so a       *)
(*    reference is either an alias of the buffer of the latest cg call or  *)
(*    an array nobody writes any more (the buffer of an earlier call),     *)
(*    which is kept by value.                                              *)
(*  - a validation score is a rational [num, den] (np.mean over groups).   *)
(*  - a query group is a list of indices; the inputs enumerated are the    *)
(*    strictly ascending lists over -1 .. NSamples.                        *)
(***************************************************************************)
EXTENDS Integers, Sequences, FiniteSets, TLC

\* ---------------------------------------------------------------- bounds
NSamples == 2       \* number of training examples (Y.shape[0])
MaxVGroups == 2     \* validation query groups
MaxScore == 1       \* a group's validation score is in 0 .. MaxScore
MaxRuns == 2        \* training runs of one learner
MaxCgIter == 12     \* cg iteration cap of the long scenario
ShortCap == 2       \* cg iteration cap of the short scenarios
MaxTotalIter == 13  \* solver iterations over the life of one learner
MaxLen == 3         \* length of the vectors given to a measure

\* ------------------------------------------------------ program constants
Patience == 10      \* EarlyStopCB.__init__: maxiter=10

\* ----------------------------------------------------------------- values
None == <<>>
Some(v) == <<v>>
IsNone(o) == o = <<>>
Val(o) == o[1]

\* array references
Alias == [alias |-> TRUE, val |-> <<0, 0>>]
Owned(v) == [alias |-> FALSE, val |-> v]
Deref(r, buf) == IF r.alias THEN buf ELSE r.val
Freeze(r, buf) == Owned(Deref(r, buf))
FreezeOpt(o, buf) == IF IsNone(o) THEN None ELSE Some(Freeze(Val(o), buf))

\* the vector the solver holds after i iterations with regularization rp
IterVal(rp, i) == IF i = 0 THEN <<0, 0>> ELSE <<rp, i>>

\* rationals
Rat(n, d) == [num |-> n, den |-> d]
RatLess(a, b) == a.num * b.den < b.num * a.den

RECURSIVE SeqSum(_)
SeqSum(s) == IF s = <<>> THEN 0 ELSE Head(s) + SeqSum(Tail(s))

\* np.mean of a non-empty list of scores
Mean(s) == Rat(SeqSum(s), Len(s))

Abs(n) == IF n < 0 THEN -n ELSE n

RECURSIVE GCD(_, _)
GCD(m, n) == IF n = 0 THEN m ELSE GCD(n, m % n)

\* a rational in lowest terms with a positive denominator
RatNorm(r) ==
    LET g == GCD(Abs(r.num), Abs(r.den))
        sgn == IF r.den < 0 THEN -1 ELSE 1
    IN Rat(sgn * (r.num \div g), sgn * (r.den \div g))

RatAdd(p, q) == RatNorm(Rat(p.num * q.den + q.num * p.den, p.den * q.den))
RatSub(p, q) == RatNorm(Rat(p.num * q.den - q.num * p.den, p.den * q.den))
RatScale(k, p) == RatNorm(Rat(k * p.num, p.den))
RatOfInt(k) == Rat(k, 1)
RatMul(p, q) == RatNorm(Rat(p.num * q.num, p.den * q.den))
\* p / q for q # 0
RatDiv(p, q) == RatNorm(Rat(p.num * q.den, p.den * q.num))

\* the sum of the rationals f[e], e in S
RECURSIVE RatSum(_, _)
RatSum(f, S) ==
    IF S = {} THEN RatOfInt(0)
    ELSE LET e == CHOOSE e \in S : TRUE IN RatAdd(f[e], RatSum(f, S \ {e}))

\* the sum of the integers f[e], e in S
RECURSIVE IntSum(_, _)
IntSum(f, S) ==
    IF S = {} THEN 0
    ELSE LET e == CHOOSE e \in S : TRUE IN f[e] + IntSum(f, S \ {e})

\* the number num / sqrt(root): an entry of the matrix P
InvSqrt(num, root) == [num |-> num, root |-> root]

\* the ascending list of a finite set of integers
RECURSIVE SortedSeq(_)
SortedSeq(S) ==
    IF S = {} THEN <<>>
    ELSE LET m == CHOOSE a \in S : \A b \in S : a <= b
         IN <<m>> \o SortedSeq(S \ {m})

VARIABLES
    pool,               \* resource_pool: the keyword arguments of the learner
    cap,                \* the solver's iteration cap (cg's maxiter)
    pc,                 \* "new", "ready", "cg", "done", "raised", "loaderror"
    err,                \* the exception that left loadResources or train
    learn_from_labels,  \* self.learn_from_labels
    size,               \* self.size
    qidlist,            \* self.qidlist
    indslist,           \* self.indslist
    callbackfun,        \* self.callbackfun: None or the EarlyStopCB object
    A,                  \* self.A: None or an array reference
    results,            \* self.results[MODEL]: None or the model's weights
    x,                  \* the content of the solver's live buffer
    it,                 \* solver iterations done in this run
    runs,               \* training runs started
    spent,              \* solver iterations done in all runs
    outcome,            \* how this run ended: "none", "converged", "stopped", "raised"
    ncb,                \* callback invocations in this run
    perf,               \* the score computed by the latest callback
    snap,               \* the vector learner.A held when bestA was last assigned
    self_b,             \* self.b: None or the bias
    info,               \* the convergence flag cg returned in this run, or None
    flag,               \* what the learner keeps of that flag (no line assigns it)
    arg,                \* the arguments of a function called on its own
    ret                 \* what that call returned

vars == <<pool, cap, pc, err, learn_from_labels, size, qidlist, indslist,
          callbackfun, A, results, x, it, runs, spent, outcome, ncb, perf, snap,
          self_b, info, flag, arg, ret>>

\* the state of a learner is apart from the functions called on their own
fnvars == <<arg, ret>>

\* ------------------------------------------------------------- measures
\* sqmprank.iserror = True (sq_mprank_measure.py), auc.iserror = False
iserror(measure) == measure = "sqmprank"

\* auc_singletask raises UndefinedPerformance when one class is absent from
\* the labels it is given; sqmprank raises nothing.  degenerate: the labels
\* handed to the measure hold a single class.
MeasureUndefined(measure, degenerate) == measure = "auc" /\ degenerate

\* ---------------------------------------------------------- EarlyStopCB
\* EarlyStopCB.__init__(X_valid, Y_valid, qids_valid, measure, maxiter).
\* Y_valid is kept as what the measures read of it: whether the whole label
\* vector, and each validation group, holds a single class.
EarlyStopCB(Y_valid, qids_valid, measure, maxiter) ==
    [Y_valid |-> Y_valid,
     qids_valid |-> qids_valid,
     measure |-> measure,
     bestperf |-> None,
     bestA |-> None,
     iter |-> 0,
     last_update |-> 0,
     maxiter |-> maxiter]

\* mutant: every score replaces the best one
Improved_Always(self, p) == TRUE
\* the comparison of line 275
Improved(self, p) ==
    IsNone(self.bestperf)
    \/ (iserror(self.measure) <=> RatLess(p, Val(self.bestperf)))

\* the stopping test of line 282
StopNow(self) == self.last_update = self.maxiter

\* lines 264-274: the score of this callback.  scores[g] is what the measure
\* returns for validation group g (scores[1] for the whole set when there
\* are no groups).  Inside the loop an exception of the measure reaches
\* "except UndefinedPerformance", a name the module never imports, so the
\* handler itself raises NameError; outside the loop it propagates as is.
Score(self, scores) ==
    IF ~IsNone(self.qids_valid) /\ Val(self.qids_valid) # <<>>
    THEN LET groups == Val(self.qids_valid)
             bad == {g \in 1..Len(groups) :
                        MeasureUndefined(self.measure, self.Y_valid.group[groups[g]])}
         IN IF bad # {}
            THEN [signal |-> "NameError", perf |-> Rat(0, 1)]
            ELSE [signal |-> "none",
                  perf |-> Mean([g \in 1..Len(groups) |-> scores[g]])]
    ELSE IF MeasureUndefined(self.measure, self.Y_valid.all)
         THEN [signal |-> "UndefinedPerformance", perf |-> Rat(0, 1)]
         ELSE [signal |-> "none", perf |-> Rat(scores[1], 1)]

\* mutant: the stop leaves learner.A as the solver set it
EarlyStopCB_callback_NoRollback(self, learnerA, scores) ==
    LET sc == Score(self, scores) IN
    IF sc.signal # "none"
    THEN [self |-> self, A |-> learnerA, signal |-> sc.signal, perf |-> sc.perf,
          improved |-> FALSE]
    ELSE LET imp == Improved(self, sc.perf)
             s1 == IF imp
                   THEN [self EXCEPT !.bestperf = Some(sc.perf),
                                     !.bestA = Some(learnerA),
                                     !.last_update = 0]
                   ELSE [self EXCEPT !.iter = @ + 1,
                                     !.last_update = @ + 1]
         IN [self |-> s1, A |-> learnerA,
             signal |-> IF StopNow(s1) THEN "Finished" ELSE "none",
             perf |-> sc.perf, improved |-> imp]

\* EarlyStopCB.callback(learner): learnerA is learner.A on entry.  Returns the
\* controller, learner.A on exit, and the exception that leaves the callback.
EarlyStopCB_callback(self, learnerA, scores) ==
    LET sc == Score(self, scores) IN
    IF sc.signal # "none"
    THEN [self |-> self, A |-> learnerA, signal |-> sc.signal, perf |-> sc.perf,
          improved |-> FALSE]
    ELSE LET imp == Improved(self, sc.perf)
             s1 == IF imp
                   THEN [self EXCEPT !.bestperf = Some(sc.perf),
                                     !.bestA = Some(learnerA),
                                     !.last_update = 0]
                   ELSE [self EXCEPT !.iter = @ + 1,
                                     !.last_update = @ + 1]
         IN IF StopNow(s1)
            THEN [self |-> s1, A |-> Val(s1.bestA), signal |-> "Finished",
                  perf |-> sc.perf, improved |-> imp]
            ELSE [self |-> s1, A |-> learnerA, signal |-> "none",
                  perf |-> sc.perf, improved |-> imp]

\* -------------------------------------------------------------- setQids
\* the (group, index) pairs in the order the two loops of setQids visit them
RECURSIVE QidPairs(_, _)
QidPairs(qids, i) ==
    IF i > Len(qids) THEN <<>>
    ELSE [k \in 1..Len(qids[i]) |-> <<i - 1, qids[i][k]>>] \o QidPairs(qids, i + 1)

IndexTooLarge(j, n) == j >= n
\* mutant: the test for negative indices is missing
IndexNegative_Missing(j) == FALSE
IndexNegative(j) == j < 0
\* a Python list index: negative indices count from the end
PyIndex(j, n) == IF j < 0 THEN n + j ELSE j

\* lines 119-126; ql[j + 1] is self.qidlist[j]
RECURSIVE ScanQids(_, _, _)
ScanQids(pairs, ql, n) ==
    IF pairs = <<>> THEN [err |-> "", qidlist |-> ql]
    ELSE LET i == Head(pairs)[1]
             j == Head(pairs)[2]
         IN IF IndexTooLarge(j, n) THEN [err |-> "out of bounds", qidlist |-> ql]
            ELSE IF IndexNegative(j) THEN [err |-> "negative index", qidlist |-> ql]
            ELSE ScanQids(Tail(pairs), [ql EXCEPT ![PyIndex(j, n) + 1] = i], n)

\* the keys of self.qidmap (lines 131-138): the query ids in use
QidmapKeys(ql) == {ql[k] : k \in 1..Len(ql)}

\* line 174: the number of columns of P, len(self.qidmap.keys())
PColumns(ql) == Cardinality(QidmapKeys(ql))

\* mutant: one group per query id up to the largest in use, empty or not
IndsList_PerQuery(ql) ==
    LET top == CHOOSE a \in QidmapKeys(ql) : \A c \in QidmapKeys(ql) : c <= a
    IN [q \in 1..top + 1 |->
            SortedSeq({k - 1 : k \in {m \in 1..Len(ql) : ql[m] = q - 1}})]
\* lines 131-141: qidmap groups the indices by query id; indslist lists the
\* groups in the order of the dictionary's keys (small ints: ascending)
IndsList(ql) ==
    LET keys == SortedSeq({ql[k] : k \in 1..Len(ql)})
    IN [q \in 1..Len(keys) |->
            SortedSeq({k - 1 : k \in {m \in 1..Len(ql) : ql[m] = keys[q]}})]

Unassigned(ql) == \E k \in 1..Len(ql) : ql[k] = -1

setQids(qids, n) ==
    LET sc == ScanQids(QidPairs(qids, 1), [k \in 1..n |-> -1], n) IN
    IF sc.err # "" THEN [err |-> sc.err, qidlist |-> sc.qidlist, indslist |-> <<>>]
    ELSE IF Unassigned(sc.qidlist)
    THEN [err |-> "not all assigned", qidlist |-> sc.qidlist, indslist |-> <<>>]
    ELSE [err |-> "", qidlist |-> sc.qidlist, indslist |-> IndsList(sc.qidlist)]

\* -------------------------------------------------------- loadResources
\* AbstractIterativeLearner.loadResources: no callback object unless the
\* learner installs one.
AbstractIterativeLearner_loadResources == None

\* mutant: the test for several label columns is missing
MultiLabel_Missing(p) == FALSE
\* line 88: more than one label column
MultiLabel(p) == p.ycols > 1

\* mutant: one validation resource is enough
HasValidation_Either(p) == p.vx \/ p.vy
\* line 91: both validation resources are in the pool
HasValidation(p) == p.vx /\ p.vy

\* lines 83-103
LoadLabels(p) ==
    LET cb0 == AbstractIterativeLearner_loadResources IN
    IF p.labels
    THEN IF p.ycols = 0
         THEN [err |-> "IndexError", learn_from_labels |-> FALSE,
               size |-> Some(NSamples), callbackfun |-> cb0]
         ELSE IF MultiLabel(p)
         THEN [err |-> "multi-label", learn_from_labels |-> FALSE,
               size |-> Some(NSamples), callbackfun |-> cb0]
         ELSE [err |-> "", learn_from_labels |-> TRUE, size |-> Some(NSamples),
               callbackfun |->
                  IF HasValidation(p)
                  THEN Some(EarlyStopCB(p.Y_valid,
                                        IF p.has_vqids THEN Some(p.vqids) ELSE None,
                                        "sqmprank", Patience))
                  ELSE cb0]
    ELSE IF p.prefs
    THEN [err |-> "", learn_from_labels |-> FALSE, size |-> None, callbackfun |-> cb0]
    ELSE [err |-> "no labels or preferences", learn_from_labels |-> FALSE,
          size |-> None, callbackfun |-> cb0]

\* CGRankRLS.loadResources: the learner's fields, or the exception raised
loadResources(p) ==
    LET l == LoadLabels(p)
        noq == [qidlist |-> <<>>, indslist |-> <<>>]
    IN IF l.err # "" THEN l @@ noq
       ELSE IF ~p.has_qids THEN l @@ noq
       ELSE IF IsNone(l.size)
       THEN [l EXCEPT !.err = "AttributeError"] @@ noq
       ELSE LET q == setQids(p.qids, Val(l.size))
            IN [l EXCEPT !.err = q.err]
               @@ [qidlist |-> q.qidlist, indslist |-> q.indslist]

\* ------------------------------------------- the linear system of a run
\* P, the operator mv and the right-hand side XLY of trainWithLabels, in
\* exact arithmetic.  A vector is a sequence, a matrix a sequence of rows;
\* X is the matrix self.X (features by examples).

\* mutant: the weight of a group member is 1/qsize
QueryWeight_Plain(qsize) == InvSqrt(1, qsize * qsize)
\* line 179: 1. / sqrt(qsize)
QueryWeight(qsize) == InvSqrt(1, qsize)

\* lines 174-180: one column per query id, zero where nothing is assigned
QueryP(inds, ql, n) ==
    [i \in 1..n |->
        [q \in 1..PColumns(ql) |->
            IF q <= Len(inds) /\ \E a \in 1..Len(inds[q]) : inds[q][a] = i - 1
            THEN QueryWeight(Len(inds[q]))
            ELSE InvSqrt(0, 1)]]

\* mutant: the column of ones is not scaled
AllPairsWeight_Ones(n) == InvSqrt(1, 1)
\* line 183: 1./sqrt(self.size)
AllPairsWeight(n) == InvSqrt(1, n)

\* line 183: one column of ones, scaled
AllPairsP(n) == [i \in 1..n |-> <<AllPairsWeight(n)>>]

\* the projection of a run (lines 173-184)
BuildP(p, inds, ql, n) ==
    IF p.has_qids THEN QueryP(inds, ql, n) ELSE AllPairsP(n)

PCols(P) == IF P = <<>> THEN 0 ELSE Len(P[1])

\* the root shared by the non-zero entries of column q of P
ColRoot(P, q) ==
    IF \E i \in 1..Len(P) : P[i][q].num # 0
    THEN P[CHOOSE i \in 1..Len(P) : P[i][q].num # 0][q].root
    ELSE 1

\* PT * u for an integer vector u: entry q is a multiple of 1/sqrt(ColRoot)
PTtimes(P, u) ==
    [q \in 1..PCols(P) |->
        InvSqrt(IntSum([i \in 1..Len(P) |-> P[i][q].num * u[i]], 1..Len(P)),
                ColRoot(P, q))]

\* (c/sqrt(s)) * (m/sqrt(s)) = c*m/s
SurdTimes(w, z) ==
    IF w.num = 0 \/ z.num = 0 THEN RatOfInt(0)
    ELSE RatNorm(Rat(w.num * z.num, w.root))

\* P * z
Ptimes(P, z) ==
    [i \in 1..Len(P) |->
        RatSum([q \in 1..PCols(P) |-> SurdTimes(P[i][q], z[q])], 1..PCols(P))]

\* X.T * v
XTtimes(X, v, n) ==
    [i \in 1..n |-> IntSum([k \in 1..Len(X) |-> X[k][i] * v[k]], 1..Len(X))]

\* X * t for a vector t of rationals
Xtimes(X, t) ==
    [k \in 1..Len(X) |->
        RatSum([i \in 1..Len(t) |-> RatScale(X[k][i], t[i])], 1..Len(t))]

RatVec(u) == [i \in 1..Len(u) |-> RatOfInt(u[i])]

\* line 189: X_csr*(X.T*v) - X_csr*(P*(PT*(X.T*v))) + regparam*v
mv(X, P, regparam, v, n) ==
    LET u == XTtimes(X, v, n)
        first == Xtimes(X, RatVec(u))
        second == Xtimes(X, Ptimes(P, PTtimes(P, u)))
    IN [k \in 1..Len(X) |->
            RatAdd(RatSub(first[k], second[k]), RatOfInt(regparam * v[k]))]

\* line 199: X_csr*Y - X_csr*(P*(PT*Y))
XLY(X, P, Y) ==
    LET first == Xtimes(X, RatVec(Y))
        second == Xtimes(X, Ptimes(P, PTtimes(P, Y)))
    IN [k \in 1..Len(X) |-> RatSub(first[k], second[k])]

\* ---------------------------------------------------------------- inputs
\* Y.shape of the training labels: one-dimensional (0 columns to index),
\* one column, several columns
LabelShapes == {0, 1, 2}
\* the regularization parameters given to solve
Regparams == {1, 2}
Indices == -1 .. NSamples
Groups == {SortedSeq(S) : S \in SUBSET Indices}
\* the numbers of queries of a grouping
QueryCounts == {0, 1, 2}
AllQids == UNION {[1..g -> Groups] : g \in QueryCounts}
\* the grouping with every example in one query
OneQuery == <<SortedSeq(0 .. NSamples - 1)>>

\* the validation labels of a set with g groups, none of a single class
PlainValidation(g) == [all |-> FALSE, group |-> [k \in 1..g |-> FALSE]]
\* ... and with a single class in the whole set (no groups), or in the
\* last d of its groups
AnyValidation(g) ==
    IF g = 0 THEN {[all |-> a, group |-> <<>>] : a \in BOOLEAN}
    ELSE {[all |-> FALSE, group |-> [k \in 1..g |-> k > g - d]] : d \in 0..g}

Pool(labels, ycols, prefs, vx, vy, hvq, g, yv, hq, q) ==
    [labels |-> labels, ycols |-> ycols, prefs |-> prefs, vx |-> vx, vy |-> vy,
     has_vqids |-> hvq, vqids |-> [k \in 1..g |-> k], Y_valid |-> yv,
     has_qids |-> hq, qids |-> q, regparam |-> 1]

\* every query grouping, on a learner trained from one label column
QidPools ==
    {Pool(TRUE, 1, FALSE, FALSE, FALSE, FALSE, 0, PlainValidation(0), TRUE, q) :
        q \in AllQids}

\* every combination of the resources loadResources looks for
FlagPools ==
    {Pool(l, c, p, vx, vy, hvq, IF hvq THEN 1 ELSE 0,
          PlainValidation(IF hvq THEN 1 ELSE 0), hq,
          IF hq THEN OneQuery ELSE <<>>) :
        l \in BOOLEAN, c \in LabelShapes, p \in BOOLEAN, vx \in BOOLEAN,
        vy \in BOOLEAN, hvq \in BOOLEAN, hq \in BOOLEAN}

\* labels and a validation set with every number of validation groups
GroupPools ==
    {Pool(TRUE, 1, FALSE, TRUE, TRUE, TRUE, g, PlainValidation(g), FALSE, <<>>) :
        g \in 0..MaxVGroups}

\* labels and a validation set without validation groups
ValidationPools ==
    {Pool(TRUE, 1, FALSE, TRUE, TRUE, FALSE, 0, PlainValidation(0), FALSE, <<>>)}

FreshLearner ==
    /\ err = ""
    /\ learn_from_labels = FALSE
    /\ size = None
    /\ qidlist = <<>>
    /\ indslist = <<>>
    /\ callbackfun = None
    /\ A = None
    /\ results = None
    /\ x = IterVal(0, 0)
    /\ it = 0
    /\ runs = 0
    /\ spent = 0
    /\ outcome = "none"
    /\ ncb = 0
    /\ perf = None
    /\ snap = None
    /\ self_b = None
    /\ info = None
    /\ flag = None

Fresh ==
    /\ arg = None
    /\ ret = None
    /\ FreshLearner

\* a learner about to be constructed from its resource pool
Init ==
    /\ \/ pool \in QidPools \cup FlagPools \cup GroupPools /\ cap = ShortCap
       \/ pool \in ValidationPools /\ cap = MaxCgIter
    /\ pc = "new"
    /\ Fresh

\* ---------------------------------------------------------------- actions
\* AbstractLearner.__init__ -> CGRankRLS.loadResources
LoadResources ==
    /\ pc = "new"
    /\ \E l \in {loadResources(pool)} :
       /\ err' = l.err
       /\ pc' = IF l.err = "" THEN "ready" ELSE "loaderror"
       /\ learn_from_labels' = l.learn_from_labels
       /\ size' = l.size
       /\ callbackfun' = l.callbackfun
       /\ qidlist' = l.qidlist
       /\ indslist' = l.indslist
    /\ UNCHANGED <<pool, cap, A, results, x, it, runs, spent, outcome, ncb,
                   perf, snap, self_b, info, flag, fnvars>>

\* the part of a run before the first solver iteration: train() up to the
\* call of cg, which starts from a new zero vector.  The buffer of the
\* previous call is written no more: what still refers to it keeps its value.
StartRun(rp) ==
    /\ pc \in {"ready", "done", "raised"}
    /\ runs < MaxRuns
    /\ pool' = [pool EXCEPT !.regparam = rp]
    /\ pc' = "cg"
    /\ err' = ""
    /\ x' = IterVal(rp, 0)
    /\ it' = 0
    /\ runs' = runs + 1
    /\ outcome' = "none"
    /\ ncb' = 0
    /\ A' = FreezeOpt(A, x)
    /\ callbackfun' = IF IsNone(callbackfun) THEN callbackfun
                      ELSE Some([Val(callbackfun) EXCEPT !.bestA = FreezeOpt(@, x)])
    /\ info' = None
    /\ UNCHANGED <<cap, learn_from_labels, size, qidlist, indslist, results,
                   spent, perf, snap, self_b, flag, fnvars>>

\* CGRankRLS.train
Train == StartRun(pool.regparam)

\* CGRankRLS.solve(regparam)
Solve == \E rp \in Regparams : StartRun(rp)

\* the closure cb of trainWithLabels/trainWithPreferences is registered
CbRegistered == ~IsNone(callbackfun)

\* the scores the measure can return in one callback: one per validation
\* group, or one for the whole validation set
ScoreLists(self) ==
    IF ~IsNone(self.qids_valid) /\ Val(self.qids_valid) # <<>>
    THEN [1..Len(Val(self.qids_valid)) -> 0..MaxScore]
    ELSE [1..1 -> 0..MaxScore]

\* mutant: Finished is swallowed and the solver goes on
PcAfterCallback_Swallow(signal, fromLabels) ==
    IF signal = "none" THEN "cg"
    ELSE IF signal = "Finished" /\ fromLabels THEN "cg"
    ELSE "raised"

\* mutant: Finished is not caught and leaves train()
PcAfterCallback_Uncaught(signal, fromLabels) ==
    IF signal = "none" THEN "cg" ELSE "raised"

\* where control is after a callback returned or raised `signal`: cg lets
\* every exception through; trainWithLabels catches Finished alone (lines
\* 200-203), trainWithPreferences catches nothing (line 233)
PcAfterCallback(signal, fromLabels) ==
    IF signal = "none" THEN "cg"
    ELSE IF signal = "Finished" /\ fromLabels THEN "done"
    ELSE "raised"

\* how the run ended, if it did
OutcomeAfterCallback(signal, fromLabels) ==
    IF signal = "none" THEN "none"
    ELSE IF signal = "Finished" /\ fromLabels THEN "stopped"
    ELSE "raised"

\* the weights handed to getModel (lines 204-205, 234-235)
getModel(a, buf) == Some(Deref(a, buf))

\* one iteration of cg without a callback
CgIterate ==
    /\ pc = "cg"
    /\ ~CbRegistered
    /\ it < cap
    /\ spent < MaxTotalIter
    /\ x' = IterVal(pool.regparam, it + 1)
    /\ it' = it + 1
    /\ spent' = spent + 1
    /\ UNCHANGED <<pool, cap, pc, err, learn_from_labels, size, qidlist, indslist,
                   callbackfun, A, results, runs, outcome, ncb, perf, snap,
                   self_b, info, flag, fnvars>>

\* one iteration of cg followed by the callback: the solver updates its
\* buffer in place, cb (lines 193-196) makes self.A a view of it and calls
\* self.callback(), which runs callbackfun.callback(self).  An exception of
\* the callback unwinds cg; Finished is caught in trainWithLabels, which
\* then stores the model.
CgIterateCallback ==
    /\ pc = "cg"
    /\ CbRegistered
    /\ it < cap
    /\ spent < MaxTotalIter
    /\ spent' = spent + 1
    /\ \E scores \in ScoreLists(Val(callbackfun)) :
       \E r \in {EarlyStopCB_callback(Val(callbackfun), Alias, scores)} :
        LET buf == IterVal(pool.regparam, it + 1)
            npc == PcAfterCallback(r.signal, learn_from_labels)
        IN /\ x' = buf
           /\ it' = it + 1
           /\ ncb' = ncb + 1
           /\ pc' = npc
           /\ outcome' = OutcomeAfterCallback(r.signal, learn_from_labels)
           /\ err' = IF npc = "raised" THEN r.signal ELSE ""
           /\ perf' = IF r.signal \in {"none", "Finished"} THEN Some(r.perf) ELSE perf
           /\ snap' = IF r.improved THEN Some(buf) ELSE snap
           /\ callbackfun' = Some(r.self)
           /\ A' = Some(r.A)
           /\ results' = IF npc = "done" THEN getModel(r.A, buf) ELSE results
    /\ self_b' = Some(0)
    /\ UNCHANGED <<pool, cap, learn_from_labels, size, qidlist, indslist, runs,
                   info, flag, fnvars>>

\* what cg returns: its iterate and the flag info, 0 when the tolerance was
\* met and the number of iterations done when the cap ended the loop
cg_return(iterate, tol, n) == <<iterate, IF tol THEN 0 ELSE n>>

\* cg(...)[0] of lines 201 and 233: the first element of the pair
FirstOf(pair) == pair[1]

\* cg returns by itself (tolerance met, or the cap reached) with its final
\* iterate: lines 201 and 204-205, or 233-235.  Before the cap the loop ends
\* by the tolerance alone.
CgReturn ==
    /\ pc = "cg"
    /\ pc' = "done"
    /\ outcome' = "converged"
    /\ \E tol \in BOOLEAN :
          /\ it < cap => tol
          /\ \E r \in {cg_return(Alias, tol, it)} :
                /\ A' = Some(FirstOf(r))
                /\ info' = Some(r[2])
                /\ results' = getModel(FirstOf(r), x)
    /\ self_b' = Some(0)
    /\ UNCHANGED <<pool, cap, err, learn_from_labels, size, qidlist, indslist,
                   callbackfun, x, it, runs, spent, ncb, perf, snap, flag, fnvars>>

Next ==
    \/ LoadResources
    \/ Train
    \/ Solve
    \/ CgIterate
    \/ CgIterateCallback
    \/ CgReturn

Spec == Init /\ [][Next]_vars

\* ------------------------------------------ a controller with any measure
\* EarlyStopCB takes the measure as an argument (line 250).  The learners of
\* SpecCB carry a controller constructed with either of the two measures,
\* over validation labels of which any part may hold a single class.
Measures == {"sqmprank", "auc"}

ValidationPool(g) ==
    Pool(TRUE, 1, FALSE, TRUE, TRUE, g > 0, g, PlainValidation(g), FALSE, <<>>)

InitCB ==
    /\ \E g \in 0..MaxVGroups : \E yv \in AnyValidation(g), m \in Measures :
          /\ pool = [ValidationPool(g) EXCEPT !.Y_valid = yv]
          /\ cap = IF g = 0 THEN MaxCgIter ELSE ShortCap
          /\ \E l \in {loadResources(pool)} :
                /\ learn_from_labels = l.learn_from_labels
                /\ size = l.size
                /\ qidlist = l.qidlist
                /\ indslist = l.indslist
                /\ callbackfun = Some(EarlyStopCB(yv, Val(l.callbackfun).qids_valid,
                                                  m, Patience))
    /\ pc = "ready"
    /\ err = ""
    /\ A = None
    /\ results = None
    /\ x = IterVal(0, 0)
    /\ it = 0
    /\ runs = 0
    /\ spent = 0
    /\ outcome = "none"
    /\ ncb = 0
    /\ perf = None
    /\ snap = None
    /\ self_b = None
    /\ info = None
    /\ flag = None
    /\ arg = None
    /\ ret = None

NextCB ==
    \/ Train
    \/ Solve
    \/ CgIterateCallback
    \/ CgReturn

SpecCB == InitCB /\ [][NextCB]_vars

\* ... of which those whose validation set has no groups and holds both
\* classes: every callback computes one score and compares it (line 275)
InitPolarity ==
    /\ InitCB
    /\ ~pool.has_vqids
    /\ ~pool.Y_valid.all

SpecPolarity == InitPolarity /\ [][NextCB]_vars

\* ------------------------------------- the linear system built by a run
\* trainWithLabels on a loaded learner, up to the call of cg: the projection
\* P with the operator applied to a vector v, or with the right-hand side.
FeatureIndex == {1, 2}
FeatureValues == {0, 1}
WeightValues == {-1, 0, 1}
LabelValues == {0, 1}

\* learners from one label column, without query ids or with any grouping
\* that setQids accepts
SystemPools ==
    {[Pool(TRUE, 1, FALSE, FALSE, FALSE, FALSE, 0, PlainValidation(0),
           q # <<>>, q) EXCEPT !.regparam = rp] :
        q \in {g \in AllQids : g = <<>> \/ setQids(g, NSamples).err = ""},
        rp \in Regparams}

SystemArgs ==
    [fn : {"mv"}, X : [FeatureIndex -> [1..NSamples -> FeatureValues]],
     vec : [FeatureIndex -> WeightValues]]
    \cup
    [fn : {"XLY"}, X : [FeatureIndex -> [1..NSamples -> FeatureValues]],
     vec : [1..NSamples -> LabelValues]]

InitSystem ==
    /\ pool \in SystemPools
    /\ cap = ShortCap
    /\ \E l \in {loadResources(pool)} :
          /\ learn_from_labels = l.learn_from_labels
          /\ size = l.size
          /\ qidlist = l.qidlist
          /\ indslist = l.indslist
          /\ callbackfun = l.callbackfun
    /\ pc = "ready"
    /\ err = ""
    /\ A = None
    /\ results = None
    /\ x = IterVal(0, 0)
    /\ it = 0
    /\ runs = 0
    /\ spent = 0
    /\ outcome = "none"
    /\ ncb = 0
    /\ perf = None
    /\ snap = None
    /\ self_b = None
    /\ info = None
    /\ flag = None
    /\ arg \in SystemArgs
    /\ ret = None

learnervars == <<pool, cap, pc, err, learn_from_labels, size, qidlist, indslist,
                 callbackfun, A, results, x, it, runs, spent, outcome, ncb, perf,
                 snap, self_b, info, flag>>

\* lines 171-190: P is built and G = mv is applied to the vector v
ApplyOperator ==
    /\ pc = "ready"
    /\ learn_from_labels
    /\ arg.fn = "mv"
    /\ IsNone(ret)
    /\ \E P \in {BuildP(pool, indslist, qidlist, Val(size))} :
          ret' = Some([P |-> P,
                       val |-> mv(arg.X, P, pool.regparam, arg.vec, Val(size))])
    /\ UNCHANGED <<learnervars, arg>>

\* lines 171-184 and 199: P is built and the right-hand side is computed
RightHandSide ==
    /\ pc = "ready"
    /\ learn_from_labels
    /\ arg.fn = "XLY"
    /\ IsNone(ret)
    /\ \E P \in {BuildP(pool, indslist, qidlist, Val(size))} :
          ret' = Some([P |-> P, val |-> XLY(arg.X, P, arg.vec)])
    /\ UNCHANGED <<learnervars, arg>>

NextSystem ==
    \/ ApplyOperator
    \/ RightHandSide

SpecSystem == InitSystem /\ [][NextSystem]_vars

\* ------------------------------------------------ the measures themselves
\* rlscore/measure: auc_singletask, fscore_singletask and the three
\* functions of sq_mprank_measure.py, called on their own on one column.
\* Labels and predictions are integers; a result is an exact rational.

\* np.argsort(P): a permutation that puts P in ascending order (the order
\* among equal predictions is the sorting algorithm's)
Argsorts(P) ==
    {I \in [1..Len(P) -> 1..Len(P)] :
        /\ \A a, c \in 1..Len(P) : a # c => I[a] # I[c]
        /\ \A a \in 1..Len(P) - 1 : P[I[a]] <= P[I[a + 1]]}

\* lines 33-36: the end of the block of predictions equal to Ps[i]
RECURSIVE BlockEnd(_, _, _)
BlockEnd(Ps, i, j) ==
    IF j <= Len(Ps) /\ Ps[i] = Ps[j] THEN BlockEnd(Ps, i, j + 1) ELSE j

\* mutant: a tie costs nothing
PairErrors_NoTies(poscount, posties) == 2 * poscount
\* line 41, in halves: poscount + 0.5 * posties
PairErrors(poscount, posties) == 2 * poscount + posties

\* lines 27-41 from index i on; errors is counted in halves
RECURSIVE AucLoop(_, _, _, _, _, _, _)
AucLoop(Ys, Ps, i, j, poscount, posties, errors) ==
    IF i > Len(Ps) THEN [poscount |-> poscount, posties |-> posties, errors |-> errors]
    ELSE LET start == j = i
             j1 == IF start THEN BlockEnd(Ps, i, j) ELSE j
             pc1 == IF start THEN poscount + posties ELSE poscount
             pt1 == IF start
                    THEN Cardinality({m \in i..j1 - 1 : Ys[m] = 1})
                    ELSE posties
             e1 == IF Ys[i] = -1 THEN errors + PairErrors(pc1, pt1) ELSE errors
         IN AucLoop(Ys, Ps, i + 1, j1, pc1, pt1, e1)

\* auc_singletask(Y, P), I being the result of np.argsort(P)
auc_singletask(Y, P, I) ==
    LET Ys == [a \in 1..Len(P) |-> Y[I[a]]]
        Ps == [a \in 1..Len(P) |-> P[I[a]]]
        l == AucLoop(Ys, Ps, 1, 1, 0, 0, 0)
        poscount == l.poscount + l.posties
        paircount == poscount * (Len(P) - poscount)
    IN IF paircount = 0
       THEN [signal |-> "UndefinedPerformance", value |-> RatOfInt(0)]
       ELSE [signal |-> "none",
             value |-> RatSub(RatOfInt(1), Rat(l.errors, 2 * paircount))]

\* fscore_singletask(Y, P): a division by zero raises ZeroDivisionError
fscore_singletask(Y, P) ==
    LET TP == Cardinality({i \in 1..Len(Y) : Y[i] = 1 /\ P[i] > 0})
        FN == Cardinality({i \in 1..Len(Y) : Y[i] = 1 /\ ~(P[i] > 0)})
        FP == Cardinality({i \in 1..Len(Y) : Y[i] = -1 /\ P[i] > 0})
        raised == [signal |-> "ZeroDivisionError", value |-> RatOfInt(0)]
    IN IF TP + FP = 0 THEN raised
       ELSE IF TP + FN = 0 THEN raised
       ELSE LET Pr == Rat(TP, TP + FP)
                R == Rat(TP, TP + FN)
            IN IF RatAdd(Pr, R).num = 0 THEN raised
               ELSE [signal |-> "none",
                     value |-> RatDiv(RatScale(2, RatMul(Pr, R)), RatAdd(Pr, R))]

\* (len ** 2 - len) / 2 of lines 15 and 28
PairCount(n) == (n * n - n) \div 2

\* x / y of line 15: between Python 2 integers the quotient is floored
Divide(dtype, xv, yv) ==
    IF dtype = "int" THEN RatOfInt(xv \div yv) ELSE RatNorm(Rat(xv, yv))

\* sqmprank_singletask(Y, P) on matrices of the element type dtype
sqmprank_singletask(Y, P, dtype) ==
    LET vlen == Len(Y)
        diff == [i \in 1..vlen |-> Y[i] - P[i]]
        total == IntSum(diff, 1..vlen)
        centereddiff == [i \in 1..vlen |-> vlen * diff[i] - total]
    IN Divide(dtype, IntSum([i \in 1..vlen |-> centereddiff[i] * diff[i]], 1..vlen),
              PairCount(vlen))

\* sqmprank_multitask(Y, Y_predicted) on one column: mean() is a float
sqmprank_multitask(Y, Y_predicted) ==
    LET vlen == Len(Y)
        diff == [i \in 1..vlen |-> Y[i] - Y_predicted[i]]
        tempvec == IntSum(diff, 1..vlen)
        centered == [i \in 1..vlen |-> vlen * diff[i] - tempvec]
        squared == [i \in 1..vlen |-> centered[i] * centered[i]]
    IN <<RatDiv(Rat(IntSum(squared, 1..vlen), vlen), RatOfInt(PairCount(vlen)))>>

\* array_tools.as_labelmatrix: a column stays the column it is
as_labelmatrix(Y) == Y

\* sqmprank(Y, P): the mean of the columns' errors
sqmprank(Y, P) ==
    LET performances == sqmprank_multitask(as_labelmatrix(Y), as_labelmatrix(P))
    IN RatDiv(RatSum(performances, 1..Len(performances)),
              RatOfInt(Len(performances)))

Classes == {-1, 1}
Predictions == {-1, 0, 1}
Utilities == {0, 1}
Dtypes == {"int", "float"}

\* the calls made: labels and predictions of one length; the errors of
\* sq_mprank_measure.py are taken on two examples or more
MeasureArgs ==
    UNION {[fn : {"auc", "fscore"}, Y : [1..n -> Classes],
            P : [1..n -> Predictions], dtype : {"float"}] : n \in 0..MaxLen}
    \cup
    UNION {[fn : {"sqmprank"}, Y : [1..n -> Utilities],
            P : [1..n -> Utilities], dtype : Dtypes] : n \in 2..MaxLen}

InitMeasure ==
    /\ pool \in ValidationPools
    /\ cap = MaxCgIter
    /\ pc = "new"
    /\ FreshLearner
    /\ arg \in MeasureArgs
    /\ ret = None

CallAuc ==
    /\ arg.fn = "auc"
    /\ IsNone(ret)
    /\ \E I \in Argsorts(arg.P) : ret' = Some(auc_singletask(arg.Y, arg.P, I))
    /\ UNCHANGED <<learnervars, arg>>

CallFscore ==
    /\ arg.fn = "fscore"
    /\ IsNone(ret)
    /\ ret' = Some(fscore_singletask(arg.Y, arg.P))
    /\ UNCHANGED <<learnervars, arg>>

CallSqmprank ==
    /\ arg.fn = "sqmprank"
    /\ IsNone(ret)
    /\ ret' = Some([singletask |-> sqmprank_singletask(arg.Y, arg.P, arg.dtype),
                    multitask |-> sqmprank_multitask(arg.Y, arg.P)[1],
                    sqmprank |-> sqmprank(arg.Y, arg.P)])
    /\ UNCHANGED <<learnervars, arg>>

NextMeasure ==
    \/ CallAuc
    \/ CallFscore
    \/ CallSqmprank

SpecMeasure == InitMeasure /\ [][NextMeasure]_vars

\* ================================================================ claims

\* the iteration at which the iterate v was the solver's current one
IterOf(v) == v[2]

\* C1: in a first training run with a validation set, the controller halts
\* patience callbacks after the callback k of the last improvement, and the
\* returned model's weights are the iterate the solver held at callback k.
C1_StopReturnsBestIterate ==
    /\ (pc = "cg" /\ runs = 1 /\ CbRegistered /\ ~IsNone(snap))
          => it - IterOf(Val(snap)) < Patience
    /\ (outcome = "stopped" /\ runs = 1)
          => /\ it = IterOf(Val(snap)) + Patience
             /\ results = snap

\* C2: once the controller has raised the termination signal in a run, the
\* solver iterates no more and the callback is not invoked again in that run.
C2_StoppedIsTerminal ==
    [][(outcome = "stopped" /\ runs' = runs)
          => (it' = it /\ ncb' = ncb /\ x' = x /\ callbackfun' = callbackfun
              /\ outcome' = "stopped")]_vars

C2_Witness == outcome = "stopped" /\ pc = "done" /\ ncb = Patience + 1

\* strictly better under the measure's polarity
Better(measure, p, best) ==
    IF iserror(measure) THEN RatLess(p, best) ELSE RatLess(best, p)

\* C3: every callback either improves (strictly better score, or no best
\* yet: best score := score, snapshot := current weights, stall counter := 0)
\* or stalls (best score and snapshot unchanged, stall counter + 1).
C3_ImproveOrStall ==
    [][(ncb' = ncb + 1 /\ outcome' # "raised")
          => LET cb == Val(callbackfun)
                 cb2 == Val(callbackfun')
                 p == Val(perf')
             IN IF IsNone(cb.bestperf) \/ Better(cb.measure, p, Val(cb.bestperf))
                THEN /\ cb2.bestperf = Some(p)
                     /\ ~IsNone(cb2.bestA)
                     /\ Deref(Val(cb2.bestA), x') = x'
                     /\ cb2.last_update = 0
                ELSE /\ cb2.bestperf = cb.bestperf
                     /\ cb2.bestA = cb.bestA
                     /\ cb2.last_update = cb.last_update + 1]_vars

\* C4: at the start of every training run the controller is in its initial
\* state: no best score, no snapshot, stall counter 0.
C4_FreshControllerEachRun ==
    (pc = "cg" /\ it = 0 /\ CbRegistered)
        => LET cb == Val(callbackfun)
           IN IsNone(cb.bestperf) /\ IsNone(cb.bestA) /\ cb.last_update = 0

\* some index is listed in two different groups
DuplicateAssignment(qids) ==
    \E i, k \in 1..Len(qids) :
        /\ i # k
        /\ \E a \in 1..Len(qids[i]), b \in 1..Len(qids[k]) : qids[i][a] = qids[k][b]

\* C5: a training query grouping that lists an index in more than one group
\* is rejected by loadResources.
C5_DuplicateRejected ==
    (pc # "new" /\ pool.has_qids /\ DuplicateAssignment(pool.qids))
        => pc = "loaderror"

\* an index out of bounds, a negative index, or an index in no group
BadGrouping(qids, n) ==
    \/ \E i \in 1..Len(qids) : \E a \in 1..Len(qids[i]) :
          qids[i][a] >= n \/ qids[i][a] < 0
    \/ \E j \in 0..n - 1 :
          \A i \in 1..Len(qids) : \A a \in 1..Len(qids[i]) : qids[i][a] # j

SetQidsErrors == {"out of bounds", "negative index", "not all assigned", "AttributeError"}

\* C6: a grouping with an index >= n_samples, a negative index or an index
\* in no group makes loadResources fail (in setQids when the labels were
\* accepted), and that learner never iterates nor stores a model.
C6_BadGroupingRejected ==
    (pc # "new" /\ pool.has_qids /\ BadGrouping(pool.qids, NSamples))
        => /\ pc = "loaderror"
           /\ LoadLabels(pool).err = "" => err \in SetQidsErrors
           /\ runs = 0 /\ it = 0 /\ spent = 0
           /\ results = None

C6_Witness ==
    /\ pc = "loaderror"
    /\ err = "not all assigned"
    /\ pool.qids = <<<<0>>, <<0>>>>

\* C7: with validation groups, a group whose score is undefined is skipped:
\* the callback completes its step and no exception leaves it.
C7_UndefinedGroupSkipped ==
    (/\ CbRegistered
     /\ ncb > 0
     /\ LET cb == Val(callbackfun)
        IN /\ ~IsNone(cb.qids_valid)
           /\ \E g \in 1..Len(Val(cb.qids_valid)) :
                 MeasureUndefined(cb.measure, cb.Y_valid.group[g]))
        => /\ pc # "raised"
           /\ ~IsNone(perf)
           /\ ~IsNone(Val(callbackfun).bestperf)

\* C8: without labels and preferences, and with labels of several columns,
\* loadResources fails, nothing is solved and no model is ever stored.
C8_NoTargetOrMultiLabelRejected ==
    (pc # "new"
     /\ ((~pool.labels /\ ~pool.prefs) \/ (pool.labels /\ pool.ycols > 1)))
        => /\ pc = "loaderror"
           /\ err \in {"no labels or preferences", "multi-label"}
           /\ runs = 0 /\ it = 0 /\ spent = 0
           /\ results = None

C8_Witness ==
    /\ pc = "loaderror"
    /\ err = "multi-label"
    /\ pool.prefs

\* C9: a loaded learner has a controller exactly when labels, validation
\* features and validation labels were all supplied; a learner trained from
\* preference pairs has none; without a controller a run ends only by the
\* solver's own termination and the model holds the solver's final iterate.
C9_ControllerIffValidation ==
    pc \notin {"new", "loaderror"}
        => /\ CbRegistered <=> (pool.labels /\ pool.vx /\ pool.vy)
           /\ ~learn_from_labels => ~CbRegistered
           /\ ~CbRegistered =>
                /\ outcome \in {"none", "converged"}
                /\ ncb = 0
                /\ pc = "done" => (results = Some(x) /\ A = Some(Alias))

C9_Witness ==
    /\ pc = "done"
    /\ pool.labels /\ pool.vx /\ ~pool.vy
    /\ ~CbRegistered
    /\ it = cap

\* C10: when the solver ends by itself while a controller is active, the
\* model holds the iterate of the last improvement, not the final iterate.
C10_OwnTerminationReturnsBest ==
    (outcome = "converged" /\ CbRegistered /\ ncb > 0)
        => results = snap

\* C11: when cg ends at its iteration cap without meeting the tolerance, the
\* run does not fail, a model is stored, and the learner keeps the solver's
\* convergence flag, whether it learns from labels or from preferences.
C11_NonConvergenceObservable ==
    (outcome = "converged" /\ ~IsNone(info) /\ Val(info) # 0)
        => /\ pc = "done"
           /\ err = ""
           /\ ~IsNone(results)
           /\ flag = info

\* the groups in which index j is listed, and how often it is listed in all
GroupsOf(j, groups) ==
    {q \in 1..Len(groups) : \E a \in 1..Len(groups[q]) : groups[q][a] = j}

Occurrences(j, groups) ==
    Cardinality({<<q, a>> \in (1..Len(groups)) \X (1..NSamples + 1) :
                    a <= Len(groups[q]) /\ groups[q][a] = j})

\* C12: after setQids succeeded, indslist is a partition of the training
\* indices (each index 0..n_samples-1 once, in one group; no group empty; no
\* other index) and P has as many columns as indslist has groups.
C12_IndslistIsPartition ==
    (pc \notin {"new", "loaderror"} /\ pool.has_qids)
        => /\ \A j \in 0..NSamples - 1 :
                 /\ Cardinality(GroupsOf(j, indslist)) = 1
                 /\ Occurrences(j, indslist) = 1
           /\ \A q \in 1..Len(indslist) :
                 /\ indslist[q] # <<>>
                 /\ \A a \in 1..Len(indslist[q]) : indslist[q][a] \in 0..NSamples - 1
           /\ PColumns(qidlist) = Len(indslist)

\* accepted groupings with an empty group, and with an index listed twice
C12_Witness ==
    /\ pc = "ready"
    /\ pool.has_qids
    /\ \/ pool.qids = <<<<>>, SortedSeq(0..NSamples - 1)>> /\ Len(indslist) = 1
       \/ DuplicateAssignment(pool.qids) /\ Len(indslist) = 2

\* the predictions u take one value on the members of each group
PerGroupConstant(u, groups) ==
    \A q \in 1..Len(groups) : \A a, c \in 1..Len(groups[q]) :
        u[groups[q][a] + 1] = u[groups[q][c] + 1]

\* C13: with query groups, for every v whose predictions X.T*v are constant
\* on each group, the operator of trainWithLabels returns regparam * v.
C13_OperatorOnGroupConstant ==
    (/\ ~IsNone(ret)
     /\ arg.fn = "mv"
     /\ pool.has_qids
     /\ PerGroupConstant(XTtimes(arg.X, arg.vec, NSamples), indslist))
        => Val(ret).val = [k \in 1..Len(arg.X) |-> RatOfInt(pool.regparam * arg.vec[k])]

\* a group of several members, predictions that are constant on each group
\* and not all zero, and X*(X.T*v) not zero
C13_Witness ==
    /\ ~IsNone(ret)
    /\ arg.fn = "mv"
    /\ pool.has_qids
    /\ \E q \in 1..Len(indslist) : Len(indslist[q]) > 1
    /\ LET u == XTtimes(arg.X, arg.vec, NSamples)
       IN /\ PerGroupConstant(u, indslist)
          /\ \E k \in 1..Len(arg.X) : Xtimes(arg.X, RatVec(u))[k].num # 0
    /\ Val(ret).val = [k \in 1..Len(arg.X) |-> RatOfInt(pool.regparam * arg.vec[k])]

\* C14: without query ids trainWithLabels builds the projection, operator
\* and right-hand side it builds for the one query group {0..n_samples-1}.
C14_AllPairsIsOneQuery ==
    (~IsNone(ret) /\ (~pool.has_qids \/ pool.qids = OneQuery))
        => LET one == setQids(OneQuery, NSamples)
               other == IF pool.has_qids
                        THEN AllPairsP(NSamples)
                        ELSE QueryP(one.indslist, one.qidlist, NSamples)
           IN /\ Val(ret).P = other
              /\ Val(ret).val =
                    IF arg.fn = "mv"
                    THEN mv(arg.X, other, pool.regparam, arg.vec, NSamples)
                    ELSE XLY(arg.X, other, arg.vec)

C14_Witness ==
    /\ ~IsNone(ret)
    /\ ~pool.has_qids
    /\ arg.fn = "XLY"
    /\ \E k \in 1..Len(arg.X) : Val(ret).val[k].num # 0

\* the positive-negative pairs of a label vector
PosNegPairs(Y) ==
    {pr \in (1..Len(Y)) \X (1..Len(Y)) : Y[pr[1]] = 1 /\ Y[pr[2]] = -1}

\* twice the error count E: 2 for a pair whose positive has the strictly
\* lower prediction, 1 for a pair with equal predictions
TwiceE(Y, P) ==
    LET S == PosNegPairs(Y)
    IN 2 * Cardinality({pr \in S : P[pr[1]] < P[pr[2]]})
       + Cardinality({pr \in S : P[pr[1]] = P[pr[2]]})

InUnitInterval(r) == r.num >= 0 /\ r.num <= r.den

\* C15: for labels in {-1,1}, auc_singletask returns 1 - E/(p*q), a number
\* in [0,1], and raises UndefinedPerformance exactly when p*q = 0.
C15_AucIsPairwise ==
    (~IsNone(ret) /\ arg.fn = "auc")
        => LET pq == Cardinality(PosNegPairs(arg.Y))
           IN IF pq = 0
              THEN Val(ret).signal = "UndefinedPerformance"
              ELSE /\ Val(ret).signal = "none"
                   /\ Val(ret).value = RatNorm(Rat(2 * pq - TwiceE(arg.Y, arg.P), 2 * pq))
                   /\ InUnitInterval(Val(ret).value)

\* a tie between a positive and a negative, next to an inverted pair
C15_Witness ==
    /\ ~IsNone(ret)
    /\ arg.fn = "auc"
    /\ arg.Y = <<1, -1, -1>>
    /\ arg.P = <<0, 0, 1>>
    /\ Val(ret) = [signal |-> "none", value |-> Rat(1, 4)]

\* C16: for labels in {-1,1} and predictions of the same length, fscore
\* returns 2*Precision*Recall/(Precision+Recall), a number in [0,1], a
\* prediction > 0 being a positive class prediction.
C16_FscoreDefined ==
    (~IsNone(ret) /\ arg.fn = "fscore")
        => /\ Val(ret).signal = "none"
           /\ InUnitInterval(Val(ret).value)
           /\ LET TP == Cardinality({i \in 1..Len(arg.Y) : arg.Y[i] = 1 /\ arg.P[i] > 0})
                  PP == Cardinality({i \in 1..Len(arg.Y) : arg.P[i] > 0})
                  AP == Cardinality({i \in 1..Len(arg.Y) : arg.Y[i] = 1})
              IN Val(ret).value.num * (PP + AP) = 2 * TP * Val(ret).value.den

\* the squared differences over the unordered pairs of indices
PairSquares(Y, P) ==
    LET S == {pr \in (1..Len(Y)) \X (1..Len(Y)) : pr[1] < pr[2]}
        sq == [pr \in S |->
                 (Y[pr[1]] - Y[pr[2]] - P[pr[1]] + P[pr[2]])
                 * (Y[pr[1]] - Y[pr[2]] - P[pr[1]] + P[pr[2]])]
    IN IntSum(sq, S)

Tie(p, q) == p.num * q.den = q.num * p.den

\* C18: under either polarity a callback whose score equals the best score
\* is no improvement: best score and snapshot stay, the stall counter grows
\* by one.
C18_TieNeverImproves ==
    [][(/\ ncb' = ncb + 1
        /\ outcome' # "raised"
        /\ ~IsNone(Val(callbackfun).bestperf)
        /\ Tie(Val(perf'), Val(Val(callbackfun).bestperf)))
          => /\ Val(callbackfun').bestperf = Val(callbackfun).bestperf
             /\ Val(callbackfun').bestA = Val(callbackfun).bestA
             /\ Val(callbackfun').last_update = Val(callbackfun).last_update + 1]_vars

\* C19: when the controller raises the termination signal while training
\* from labels, train() returns normally and results holds a model whose
\* weights are the vector the rollback wrote to learner.A and whose bias is 0.
C19_EarlyStopIsSuccess ==
    outcome = "stopped"
        => /\ pc = "done"
           /\ err = ""
           /\ A = Val(callbackfun).bestA
           /\ results = Some(Deref(Val(A), x))
           /\ self_b = Some(0)

\* a stop in a second run, rolled back to a vector of the first run
C19_Witness ==
    /\ outcome = "stopped"
    /\ runs = 2
    /\ ~Val(A).alias
    /\ results = Some(Val(A).val)
    /\ results # Some(x)

\* C20: between two improving callbacks the stored best weight vector and
\* the stored best score do not change, whatever the solver does to its
\* current iterate.
C20_SnapshotFrozen ==
    [][(/\ runs' = runs
        /\ CbRegistered
        /\ ~IsNone(Val(callbackfun).bestA)
        /\ snap' = snap)
          => /\ Deref(Val(Val(callbackfun').bestA), x')
                    = Deref(Val(Val(callbackfun).bestA), x)
             /\ Val(callbackfun').bestperf = Val(callbackfun).bestperf]_vars

\* C21: over any sequence of runs of one learner the stall counter stays in
\* 0 .. patience, and the termination signal is raised in exactly the
\* callbacks that end with the counter at patience: a stopped run ended
\* there, and a run that goes on after a callback has not reached it.
C21_StallCounterBounded ==
    CbRegistered
        => LET cb == Val(callbackfun)
           IN /\ cb.last_update \in 0..Patience
              /\ outcome = "stopped" => cb.last_update = Patience
              /\ (pc = "cg" /\ ncb > 0) => cb.last_update < Patience

\* C22: whenever the controller has raised the termination signal, a
\* snapshot exists (after a completed callback the controller always holds
\* one) and learner.A is that snapshot: the rollback writes no empty value.
C22_RollbackWritesSnapshot ==
    /\ (CbRegistered /\ ncb > 0 /\ pc # "raised")
          => /\ ~IsNone(Val(callbackfun).bestA)
             /\ ~IsNone(Val(callbackfun).bestperf)
    /\ outcome = "stopped"
          => /\ ~IsNone(Val(callbackfun).bestA)
             /\ ~IsNone(A)
             /\ Val(A) = Val(Val(callbackfun).bestA)

\* a stop in a first run, and one in a second run whose snapshot is older
C22_Witness ==
    /\ outcome = "stopped"
    /\ Val(callbackfun).last_update = Patience
    /\ Val(A) = Val(Val(callbackfun).bestA)
    /\ \/ runs = 1 /\ Val(A).alias
       \/ runs = 2 /\ ~Val(A).alias /\ ncb = Patience

\* p is at least as good as q under the measure's polarity
AtLeastAsGood(measure, p, q) == ~Better(measure, q, p)

\* C23: within a run the best score only moves in the measure's good
\* direction (down for an error, up otherwise), and at every callback exit
\* it is at least as good as the score of that callback - hence, the best
\* score never getting worse, as every score seen so far in the run.
C23_BestScoreMonotone ==
    [][(ncb' = ncb + 1 /\ outcome' # "raised")
          => LET cb == Val(callbackfun)
                 cb2 == Val(callbackfun')
             IN /\ ~IsNone(cb2.bestperf)
                /\ AtLeastAsGood(cb.measure, Val(cb2.bestperf), Val(perf'))
                /\ ~IsNone(cb.bestperf)
                      => AtLeastAsGood(cb.measure, Val(cb2.bestperf), Val(cb.bestperf))]_vars

\* a worse score after a better one under a higher-is-better measure, and
\* under a lower-is-better one: the best score is kept
C23_Witness ==
    /\ pc = "cg"
    /\ runs = 1
    /\ ncb = 2
    /\ LET cb == Val(callbackfun)
       IN \/ /\ cb.measure = "auc"
             /\ Val(perf) = Rat(0, 1)
             /\ Val(cb.bestperf) = Rat(1, 1)
          \/ /\ cb.measure = "sqmprank"
             /\ Val(perf) = Rat(1, 1)
             /\ Val(cb.bestperf) = Rat(0, 1)

====
